---- MODULE Spec2Model ----
(***************************************************************************)
(* Model of the asgardeo-cli request core:                                 *)
(*   internal/api/http_client.go  httpClient: NewRequest, Do, Request, URI *)
(*   internal/cmd/root.go         Execute, the PersistentPreRunE gate,     *)
(*                                commandRequiresAuthentication,           *)
(*                                handleSignals                            *)
(* Four specifications share the module:                                   *)
(*   Spec        concurrent Request calls on one httpClient, with the      *)
(*               process context cancelled at any moment                   *)
(*   SpecGate    one invocation of the command tree through the pre-run    *)
(*               gate                                                      *)
(*   SpecLookup  commandRequiresAuthentication applied to a command path   *)
(*   SpecURI     httpClient.URI applied to a list of path segments         *)
(* Go strings are TLA+ strings where only equality, length and             *)
(* concatenation are needed, and sequences of fragments where the code     *)
(* works on the characters (URI).                                          *)
(***************************************************************************)
EXTENDS Integers, Sequences, FiniteSets, TLC

VARIABLES
    client,     \* the httpClient built by NewHTTPClientAPI
    built,      \* the same value, as NewHTTPClientAPI returned it
    ctxDone,    \* the process context of Execute has been cancelled
    calls,      \* per caller: the state of its Request call
    gate,       \* the state of one invocation of the command tree
    uri         \* the state of one URI call

vars == <<client, built, ctxDone, calls, gate, uri>>

-----------------------------------------------------------------------------
(* Errors are records; a wrapped error (fmt.Errorf("...: %w", err)) keeps  *)
(* its cause.                                                              *)

Nil == [kind |-> "nil"]

Wrap(prefix, err) == [kind |-> "wrapped", prefix |-> prefix, cause |-> err]

\* ctx.Err() of a cancelled context
ContextCanceled == [kind |-> "context", msg |-> "context canceled"]

\* what http.Client.Do reports when the exchange fails
TransportErrors ==
    { [kind |-> "transport", msg |-> "connection refused"] }

-----------------------------------------------------------------------------
(* NewHTTPClientAPI                                                        *)

Tenants == { [name |-> "acme", token |-> "tok-acme"],
             [name |-> "carbon.super", token |-> "tok-carbon"] }

NewHTTPClientAPI(tenant) ==
    [ scheme   |-> "https",
      host     |-> "api.asgardeo.io",
      basepath |-> <<"t", "/", tenant.name, "/", "api", "/", "server", "/", "v1">>,
      token    |-> tenant.token ]

-----------------------------------------------------------------------------
(* Payloads, JSON encoding and decoding                                    *)

\* The values a caller passes as payload interface{}: the untyped nil, a
\* typed nil pointer, a pointer to a struct, a channel.
NilPayload == [kind |-> "nil", val |-> "none"]

Payloads ==
    { NilPayload,
      [kind |-> "nilptr", val |-> "none"],
      [kind |-> "ptr",    val |-> "appA"],
      [kind |-> "chan",   val |-> "none"] }

\* json.Marshal of the value an interface holds
Marshal(payload) ==
    CASE payload.kind = "nilptr" -> "null"
      [] payload.kind = "ptr" /\ payload.val = "appA" -> "{\"name\":\"a\"}"
      [] OTHER -> "null"

\* json.Encoder.Encode: fails on an unsupported type, otherwise writes the
\* JSON text followed by a newline
EncodeFails(payload) == payload.kind = "chan"

Encode(payload) == Marshal(payload) \o "\n"

\* The bodies the server answers with
ResponseBodies == { "", "{}", "{\"name\":\"b\"}", "null", "[1]", "<html>" }

ValidJSON(body) == body \in { "{}", "{\"name\":\"b\"}", "null", "[1]" }

\* json.Unmarshal(responseBody, &payload): the error it returns. The target
\* is the local interface variable; json follows it to the caller's object
\* only when it holds a non-nil pointer. A struct cannot take an array.
UnmarshalError(body, payload) ==
    IF ~ValidJSON(body)
        THEN [kind |-> "json", msg |-> "invalid character"]
    ELSE IF payload.kind = "ptr" /\ body = "[1]"
        THEN [kind |-> "json", msg |-> "cannot unmarshal array into Go value"]
    ELSE Nil

\* json.Unmarshal(responseBody, &payload): the caller's object afterwards
UnmarshalSlot(body, payload, slot) ==
    IF UnmarshalError(body, payload) = Nil /\ payload.kind = "ptr"
        THEN CASE body = "{\"name\":\"b\"}" -> "appB"
               [] OTHER -> slot
        ELSE slot

-----------------------------------------------------------------------------
(* httpClient.NewRequest                                                   *)

Methods == { "POST", "G T" }

\* http.NewRequestWithContext refuses a method that is not a token
ValidMethod(method) == method \in { "GET", "POST", "PUT", "PATCH", "DELETE" }

\* the constant without the newline json.Encoder appends
nullBody_NoNewline == "null"

nullBody == "null\n"

NoRequest == [built |-> FALSE, method |-> "", body |-> "",
              contentType |-> "", authorization |-> ""]

\* lines 69-77: the buffer handed to http.NewRequestWithContext
RequestBody(payload) ==
    LET encoded == IF payload # NilPayload THEN Encode(payload) ELSE ""
    IN  IF encoded = nullBody THEN "" ELSE encoded

NewRequest(method, payload) ==
    IF payload # NilPayload /\ EncodeFails(payload)
        THEN [err     |-> Wrap("encoding request payload failed",
                               [kind |-> "json", msg |-> "unsupported type"]),
              request |-> NoRequest]
    ELSE IF ~ValidMethod(method)
        THEN [err     |-> [kind |-> "http", msg |-> "invalid method"],
              request |-> NoRequest]
    ELSE [err     |-> Nil,
          request |-> [built         |-> TRUE,
                       method        |-> method,
                       body          |-> RequestBody(payload),
                       contentType   |-> "application/json",
                       authorization |-> ""]]

-----------------------------------------------------------------------------
(* The state of one Request call                                           *)

Callers == { "c1", "c2" }

StatusCodes == { 200, 204, 302, 399, 400, 404 }

StatusBadRequest == 400

NoResponse == [status |-> 0, body |-> ""]

IdleCall ==
    [ pc                |-> "idle",
      method            |-> "",
      payload           |-> NilPayload,
      slot              |-> "none",     \* the caller's object behind payload
      request           |-> NoRequest,  \* the *http.Request being built
      wire              |-> NoRequest,  \* the request as the transport sent it
      sends             |-> 0,          \* calls of c.client.Do
      transportErr      |-> Nil,        \* what c.client.Do reported
      failedAfterCancel |-> FALSE,      \* ctx was done when it reported that
      doReturned        |-> FALSE,
      doErr             |-> Nil,        \* the error Do returned
      gotResponse       |-> FALSE,
      response          |-> NoResponse,
      bodyRead          |-> "unread",   \* unread | eof | failed
      bodyClosed        |-> FALSE,
      unmarshalCalled   |-> FALSE,
      result            |-> Nil,        \* the error Request returned
      returns           |-> 0 ]         \* times Request returned to its caller

\* a return of Request before line 50
Return(c, err) ==
    [c EXCEPT !.pc = "done", !.result = err, !.returns = @ + 1]

\* the deferred Close left out
ReturnDeferred_NoClose(c, err) == Return(c, err)

\* a return of Request after line 50: the deferred response.Body.Close() runs
ReturnDeferred(c, err) ==
    [c EXCEPT !.pc = "done", !.result = err, !.returns = @ + 1,
              !.bodyClosed = TRUE]

\* newError(response): reads the body for the server's message and builds
\* the structured error with the status code; a body that is not a JSON
\* object leaves the message to the status text
newError(response) ==
    [ kind    |-> "UpstreamError",
      code    |-> response.status,
      message |-> IF response.body \in {"{}", "{\"name\":\"b\"}"}
                      THEN response.body
                      ELSE "status text" ]

-----------------------------------------------------------------------------
(* httpClient.Request and httpClient.Do, one step at a time                *)

\* Request, lines 40-44: the caller's arguments and NewRequest
RequestNewRequest(i) ==
    /\ calls[i].pc = "idle"
    /\ \E method \in Methods, payload \in Payloads :
         LET made == NewRequest(method, payload)
             c    == [calls[i] EXCEPT !.method = method, !.payload = payload,
                                      !.slot = payload.val]
         IN  calls' = [calls EXCEPT ![i] =
                 IF made.err # Nil
                     THEN Return(c, Wrap("failed to create a new request", made.err))
                     ELSE [c EXCEPT !.pc = "Do", !.request = made.request]]
    /\ UNCHANGED <<client, built, ctxDone, gate, uri>>

\* Do, line 88
AuthorizationHeader(c) == "Bearer " \o c.token

\* the token refreshed in place on the shared client before it is sent
DoSetHeader_RefreshInPlace(i) ==
    /\ calls[i].pc = "Do"
    /\ client' = [client EXCEPT !.token = "tok-refreshed"]
    /\ calls' = [calls EXCEPT ![i].request.authorization = AuthorizationHeader(client'),
                              ![i].pc = "send"]
    /\ UNCHANGED <<built, ctxDone, gate, uri>>

DoSetHeader(i) ==
    /\ calls[i].pc = "Do"
    /\ calls' = [calls EXCEPT ![i].request.authorization = AuthorizationHeader(client),
                              ![i].pc = "send"]
    /\ UNCHANGED <<client, built, ctxDone, gate, uri>>

\* Do, line 89: c.client.Do(req) is entered. The transport refuses to start
\* an exchange whose context is already done.
TransportSend(i) ==
    /\ calls[i].pc = "send"
    /\ calls' = [calls EXCEPT ![i].sends = @ + 1,
                              ![i].wire = calls[i].request,
                              ![i].pc = IF ctxDone THEN "refused" ELSE "inflight"]
    /\ UNCHANGED <<client, built, ctxDone, gate, uri>>

\* Do, lines 89-90 and 98: c.client.Do(req) returns. A context that was done
\* before the exchange began makes it fail; otherwise either outcome can
\* come back, whatever the context is by then.
TransportReturn(i) ==
    /\ calls[i].pc \in {"inflight", "refused"}
    /\ \/ \E err \in TransportErrors :
            calls' = [calls EXCEPT ![i].transportErr = err,
                                   ![i].failedAfterCancel = ctxDone,
                                   ![i].pc = "DoFailed"]
       \/ /\ calls[i].pc = "inflight"
          /\ \E status \in StatusCodes, body \in ResponseBodies :
               calls' = [calls EXCEPT ![i].response = [status |-> status, body |-> body],
                                      ![i].gotResponse = TRUE,
                                      ![i].doReturned = TRUE,
                                      ![i].doErr = Nil,
                                      ![i].pc = "Classify"]
    /\ UNCHANGED <<client, built, ctxDone, gate, uri>>

\* the transport error passed on without looking at the context
DoError_NoSelect(done, err) == err

\* Do, lines 90-97: the select on ctx.Done()
DoError(done, err) == IF done THEN ContextCanceled ELSE err

\* a failed send tried once more
DoFailed_Retry(i) ==
    /\ calls[i].pc = "DoFailed"
    /\ LET err == DoError(ctxDone, calls[i].transportErr)
           c   == [calls[i] EXCEPT !.doReturned = TRUE, !.doErr = err]
       IN  calls' = [calls EXCEPT ![i] =
               IF calls[i].sends < 2
                   THEN [calls[i] EXCEPT !.pc = "send"]
                   ELSE Return(c, Wrap("failed to send the request", err))]
    /\ UNCHANGED <<client, built, ctxDone, gate, uri>>

\* Do, lines 90-97, then Request, lines 46-49
DoFailed(i) ==
    /\ calls[i].pc = "DoFailed"
    /\ LET err == DoError(ctxDone, calls[i].transportErr)
           c   == [calls[i] EXCEPT !.doReturned = TRUE, !.doErr = err]
       IN  calls' = [calls EXCEPT ![i] =
               Return(c, Wrap("failed to send the request", err))]
    /\ UNCHANGED <<client, built, ctxDone, gate, uri>>

\* the comparison off by one
IsErrorStatus_Strict(status) == status > StatusBadRequest

\* Request, line 51
IsErrorStatus(status) == status >= StatusBadRequest

\* Request, lines 50-54; newError reads the body it is given
RequestClassify(i) ==
    /\ calls[i].pc = "Classify"
    /\ calls' = [calls EXCEPT ![i] =
           IF IsErrorStatus(calls[i].response.status)
               THEN ReturnDeferred([calls[i] EXCEPT !.bodyRead = "eof"],
                                   newError(calls[i].response))
               ELSE [calls[i] EXCEPT !.pc = "ReadAll"]]
    /\ UNCHANGED <<client, built, ctxDone, gate, uri>>

\* Request, lines 55-58: io.ReadAll(response.Body)
RequestReadAll(i) ==
    /\ calls[i].pc = "ReadAll"
    /\ \/ calls' = [calls EXCEPT ![i].bodyRead = "eof", ![i].pc = "Decode"]
       \/ calls' = [calls EXCEPT ![i] =
              ReturnDeferred([calls[i] EXCEPT !.bodyRead = "failed"],
                             Wrap("failed to read the response body",
                                  [kind |-> "io", msg |-> "unexpected EOF"]))]
    /\ UNCHANGED <<client, built, ctxDone, gate, uri>>

\* only the empty body skipped
SkipsDecode_OnlyEmpty(responseBody) == Len(responseBody) = 0

\* Request, line 59
SkipsDecode(responseBody) == ~(Len(responseBody) > 0 /\ responseBody # "{}")

\* Request, lines 59-64
RequestDecode(i) ==
    /\ calls[i].pc = "Decode"
    /\ LET body == calls[i].response.body
           err  == UnmarshalError(body, calls[i].payload)
           c    == [calls[i] EXCEPT
                        !.unmarshalCalled = TRUE,
                        !.slot = UnmarshalSlot(body, calls[i].payload, @)]
       IN  calls' = [calls EXCEPT ![i] =
               IF SkipsDecode(body)
                   THEN ReturnDeferred(calls[i], Nil)
               ELSE IF err # Nil
                   THEN ReturnDeferred(c, Wrap("failed to unmarshal response payload", err))
               ELSE ReturnDeferred(c, Nil)]
    /\ UNCHANGED <<client, built, ctxDone, gate, uri>>

\* handleSignals, lines 109-110: an interrupt arrives and cancel() runs
handleSignals ==
    /\ ~ctxDone
    /\ ctxDone' = TRUE
    /\ UNCHANGED <<client, built, calls, gate, uri>>

-----------------------------------------------------------------------------
(* The command dispatcher: Execute, the PersistentPreRunE gate             *)

\* The names of the commands below the root; a command path is the root's
\* name followed by the names down to the invoked command. cobra's
\* CommandPath joins them with single spaces and no name holds a space, so
\* two paths are the same string exactly when they are the same sequence.
CommandNames == { "login", "logout", "applications", "list" }

MaxDepth == 2

RECURSIVE NamesUpTo(_, _)
NamesUpTo(S, n) ==
    IF n = 0 THEN { <<>> }
    ELSE LET shorter == NamesUpTo(S, n - 1)
         IN  shorter \cup { Append(p, w) : p \in shorter, w \in S }

\* the paths cobra hands to the hook
CommandPaths == { <<"asgardeo">> \o p : p \in NamesUpTo(CommandNames, MaxDepth) }

\* the strings the lookup can be asked about
LookupNames == NamesUpTo(CommandNames \cup {"asgardeo"}, MaxDepth + 1)

\* lines 78-81: the keys of commandsWithNoAuthRequired
commandsWithNoAuthRequired ==
    { <<"asgardeo", "login">>, <<"asgardeo", "logout">> }

IsPrefix(p, q) == Len(p) <= Len(q) /\ SubSeq(q, 1, Len(p)) = p

\* the lookup done with a prefix test
commandRequiresAuthentication_Prefix(invokedCommandName) ==
    ~(\E p \in commandsWithNoAuthRequired : IsPrefix(p, invokedCommandName))

commandRequiresAuthentication(invokedCommandName) ==
    ~(invokedCommandName \in commandsWithNoAuthRequired)

\* one call of the lookup
LookupStart(name) == [pc |-> "lookup", path |-> name, needsAuth |-> FALSE]

LookupCall ==
    /\ gate.pc = "lookup"
    /\ gate' = [gate EXCEPT !.pc = "looked",
                            !.needsAuth = commandRequiresAuthentication(gate.path)]
    /\ UNCHANGED <<client, built, ctxDone, calls, uri>>

\* what cli.SetupWithAuthentication returns
SetupOutcomes ==
    { Nil,
      [kind |-> "auth", msg |-> "no active tenant"],
      [kind |-> "auth", msg |-> "token expired"] }

\* what a command body returns
BodyOutcomes == { Nil, [kind |-> "command", msg |-> "request failed"] }

GateStart(path) ==
    [ pc         |-> "execute",
      path       |-> path,
      needsAuth  |-> FALSE,   \* what commandRequiresAuthentication answered
      events     |-> <<>>,    \* collaborator and body runs, in order
      setupErr   |-> Nil,     \* what SetupWithAuthentication returned
      preRunErr  |-> Nil,     \* what PersistentPreRunE returned
      err        |-> Nil,     \* what rootCmd.ExecuteContext returned
      exitCode   |-> -1 ]     \* -1: the process is running

\* the setup failure logged and dropped
PersistentPreRunE_IgnoresFailure ==
    /\ gate.pc = "preRun"
    /\ LET needs == commandRequiresAuthentication(gate.path)
       IN  IF ~needs
               THEN gate' = [gate EXCEPT !.pc = "run", !.needsAuth = needs]
               ELSE \E outcome \in SetupOutcomes :
                      gate' = [gate EXCEPT !.pc = "run",
                                           !.needsAuth = needs,
                                           !.events = Append(@, "setup"),
                                           !.setupErr = outcome]
    /\ UNCHANGED <<client, built, ctxDone, calls, uri>>

\* lines 57-66
PersistentPreRunE ==
    /\ gate.pc = "preRun"
    /\ LET needs == commandRequiresAuthentication(gate.path)
       IN  IF ~needs
               THEN gate' = [gate EXCEPT !.pc = "run", !.needsAuth = needs]
               ELSE \E outcome \in SetupOutcomes :
                      gate' = [gate EXCEPT
                          !.pc = "run",
                          !.needsAuth = needs,
                          !.events = Append(@, "setup"),
                          !.setupErr = outcome,
                          !.preRunErr = IF outcome # Nil
                                            THEN Wrap("authentication failed", outcome)
                                            ELSE Nil]
    /\ UNCHANGED <<client, built, ctxDone, calls, uri>>

\* line 42: rootCmd.ExecuteContext finds the command. One with no Run, as
\* the root of lines 50-67, gets its help printed and neither hook nor body
\* runs; the commands below the root are defined elsewhere and may be of
\* either kind.
ExecuteContext ==
    /\ gate.pc = "execute"
    /\ \/ gate' = [gate EXCEPT !.pc = "returned"]
       \/ /\ Len(gate.path) > 1
          /\ gate' = [gate EXCEPT !.pc = "preRun"]
    /\ UNCHANGED <<client, built, ctxDone, calls, uri>>

\* line 42: rootCmd.ExecuteContext goes on from the pre-run hook; an error
\* from the hook is returned and the command's body is not run
RunCommand ==
    /\ gate.pc = "run"
    /\ IF gate.preRunErr # Nil
           THEN gate' = [gate EXCEPT !.pc = "returned", !.err = gate.preRunErr]
           ELSE \E outcome \in BodyOutcomes :
                  gate' = [gate EXCEPT !.pc = "returned",
                                       !.events = Append(@, "body"),
                                       !.err = outcome]
    /\ UNCHANGED <<client, built, ctxDone, calls, uri>>

\* lines 42-47
ExecuteExit ==
    /\ gate.pc = "returned"
    /\ gate' = [gate EXCEPT !.pc = "exited",
                            !.exitCode = IF gate.err # Nil THEN 1 ELSE 0]
    /\ UNCHANGED <<client, built, ctxDone, calls, uri>>

-----------------------------------------------------------------------------
(* httpClient.URI                                                          *)

\* The characters of a path segment: one that needs no escape, the path
\* delimiter, and the escape character itself.
SegmentChars == { "a", "/", "%" }

MaxSegmentLen == 2

MaxSegments == 2

RECURSIVE SeqsUpTo(_, _)
SeqsUpTo(S, n) ==
    IF n = 0 THEN { <<>> }
    ELSE LET shorter == SeqsUpTo(S, n - 1)
         IN  shorter \cup { Append(q, x) : q \in shorter, x \in S }

Segments == SeqsUpTo(SegmentChars, MaxSegmentLen)

SegmentLists == SeqsUpTo(Segments, MaxSegments)

RECURSIVE Concat(_)
Concat(ss) == IF ss = <<>> THEN <<>> ELSE Head(ss) \o Concat(Tail(ss))

\* url.PathEscape: every character outside the unreserved set and the
\* sub-delimiters a segment may hold becomes %XX; "/" is among the escaped
EscapeChar(ch) ==
    CASE ch = "/" -> <<"%", "2", "F">>
      [] ch = "%" -> <<"%", "2", "5">>
      [] OTHER    -> <<ch>>

PathEscape(str) == Concat([k \in 1..Len(str) |-> EscapeChar(str[k])])

escapedForwardSlash == <<"%", "2", "F">>

\* strings.ReplaceAll(str, "/", escapedForwardSlash)
ReplaceAllSlash(str) ==
    Concat([k \in 1..Len(str) |->
               IF str[k] = "/" THEN escapedForwardSlash ELSE <<str[k]>>])

\* strings.Join(elems, "/")
RECURSIVE JoinSlash(_)
JoinSlash(elems) ==
    IF elems = <<>> THEN <<>>
    ELSE IF Len(elems) = 1 THEN elems[1]
    ELSE elems[1] \o <<"/">> \o JoinSlash(Tail(elems))

\* lines 102-106 and baseURL.String(): scheme, "://", host, the "/" a path
\* without a leading slash gets, then the path
BaseURLString(c) ==
    <<c.scheme, "://", c.host, "/">> \o c.basepath \o <<"/">>

\* the segments joined as they came
URI_JoinRaw(c, path) == BaseURLString(c) \o JoinSlash(path)

URI(c, path) ==
    LET escapedPath == [k \in 1..Len(path) |-> ReplaceAllSlash(PathEscape(path[k]))]
    IN  BaseURLString(c) \o JoinSlash(escapedPath)

URIStart(path) == [pc |-> "call", path |-> path, out |-> <<>>]

URICall ==
    /\ uri.pc = "call"
    /\ uri' = [uri EXCEPT !.pc = "done", !.out = URI(client, uri.path)]
    /\ UNCHANGED <<client, built, ctxDone, calls, gate>>

-----------------------------------------------------------------------------
(* The dispatcher and the URI call, at rest                                *)

IdleGate == [pc |-> "idle"]

IdleURI == [pc |-> "idle"]

InitClient ==
    /\ client \in { NewHTTPClientAPI(t) : t \in Tenants }
    /\ built = client

-----------------------------------------------------------------------------
(* Spec: concurrent Request calls on one client                            *)

Init ==
    /\ InitClient
    /\ ctxDone = FALSE
    /\ calls = [i \in Callers |-> IdleCall]
    /\ gate = IdleGate
    /\ uri = IdleURI

Next ==
    \/ \E i \in Callers :
         \/ RequestNewRequest(i)
         \/ DoSetHeader(i)
         \/ TransportSend(i)
         \/ TransportReturn(i)
         \/ DoFailed(i)
         \/ RequestClassify(i)
         \/ RequestReadAll(i)
         \/ RequestDecode(i)
    \/ handleSignals

Spec == Init /\ [][Next]_vars

-----------------------------------------------------------------------------
(* SpecGate: one invocation of the command tree                            *)

InitGate ==
    /\ InitClient
    /\ ctxDone = FALSE
    /\ calls = [i \in Callers |-> IdleCall]
    /\ gate \in { GateStart(p) : p \in CommandPaths }
    /\ uri = IdleURI

NextGate ==
    \/ ExecuteContext
    \/ PersistentPreRunE
    \/ RunCommand
    \/ ExecuteExit
    \/ handleSignals

SpecGate == InitGate /\ [][NextGate]_vars

-----------------------------------------------------------------------------
(* SpecLookup: commandRequiresAuthentication applied to a command path     *)

InitLookup ==
    /\ InitClient
    /\ ctxDone = FALSE
    /\ calls = [i \in Callers |-> IdleCall]
    /\ gate \in { LookupStart(n) : n \in LookupNames }
    /\ uri = IdleURI

NextLookup == LookupCall

SpecLookup == InitLookup /\ [][NextLookup]_vars

-----------------------------------------------------------------------------
(* SpecURI: one URI call                                                   *)

InitURI ==
    /\ InitClient
    /\ ctxDone = FALSE
    /\ calls = [i \in Callers |-> IdleCall]
    /\ gate = IdleGate
    /\ uri \in { URIStart(p) : p \in SegmentLists }

NextURI == URICall

SpecURI == InitURI /\ [][NextURI]_vars

-----------------------------------------------------------------------------
(* Properties of Spec                                                      *)

Done(i) == calls[i].pc = "done"

Resolved(i) == Done(i) /\ calls[i].gotResponse

\* Do returns in this step
DoReturns(i) == ~calls[i].doReturned /\ calls'[i].doReturned

\* the context was done before c.client.Do returned
CancelledBeforeTransportReturned(i) ==
    \/ calls[i].pc \in {"inflight", "refused"} /\ ctxDone
    \/ calls[i].pc = "DoFailed" /\ calls[i].failedAfterCancel

\* C2, as stated: whenever the context was cancelled before the transport
\* call returned, Do returns the context's error, whatever the transport
\* reported.
C2_CancelledAlwaysCancellationError ==
    [][\A i \in Callers :
         DoReturns(i) /\ CancelledBeforeTransportReturned(i)
            => calls'[i].doErr = ContextCanceled]_vars

\* C2, amended: when the transport reports a failure and the context was
\* cancelled before that, Do returns the context's own error and no
\* response, never the transport's error; when the transport reports a
\* response, Do returns it with no error.
C2_CancellationErrorOnFailure ==
    \A i \in Callers :
        calls[i].doReturned =>
            /\ calls[i].failedAfterCancel =>
                   /\ calls[i].doErr = ContextCanceled
                   /\ calls[i].doErr \notin TransportErrors
                   /\ ~calls[i].gotResponse
            /\ calls[i].transportErr = Nil =>
                   calls[i].doErr = Nil /\ calls[i].gotResponse

C2_Witness ==
    \E i \in Callers :
        /\ Done(i)
        /\ calls[i].failedAfterCancel
        /\ calls[i].sends = 1
        /\ calls[i].doErr = ContextCanceled

\* C3: a resolved response ends in the structured upstream error exactly
\* when its status is 400 or more; that error carries the status, and
\* nothing is decoded into the caller's object; a status below 400 goes on
\* to read the body and decodes it unless it is empty or {}.
C3_ErrorIffStatusAtLeast400 ==
    \A i \in Callers :
        Resolved(i) =>
            LET status == calls[i].response.status
                body   == calls[i].response.body
            IN  /\ (status >= 400) <=> (calls[i].result.kind = "UpstreamError")
                /\ status >= 400 =>
                       /\ calls[i].result.code = status
                       /\ ~calls[i].unmarshalCalled
                       /\ calls[i].slot = calls[i].payload.val
                /\ status < 400 =>
                       /\ calls[i].result = Nil \/ calls[i].result.kind = "wrapped"
                       /\ calls[i].bodyRead = "eof" /\ body \notin {"", "{}"}
                              => calls[i].unmarshalCalled

C3_Witness ==
    \E i, j \in Callers :
        /\ Resolved(i) /\ Resolved(j)
        /\ calls[i].response.status = 404
        /\ calls[i].result.kind = "UpstreamError"
        /\ calls[i].result.code = 404
        /\ calls[i].payload.kind = "ptr"
        /\ calls[j].response.status = 399
        /\ calls[j].payload.kind = "ptr"
        /\ calls[j].slot = "appB"

\* C4: a response below 400 whose body reads as empty or as exactly {}
\* resolves with no error, without a decode, and with the caller's object
\* as it was.
C4_EmptyBodyLeavesSlot ==
    \A i \in Callers :
        /\ Resolved(i)
        /\ calls[i].response.status < 400
        /\ calls[i].bodyRead = "eof"
        /\ calls[i].response.body \in {"", "{}"}
        => /\ calls[i].result = Nil
           /\ ~calls[i].unmarshalCalled
           /\ calls[i].slot = calls[i].payload.val

C4_Witness ==
    \E i, j \in Callers :
        /\ Resolved(i) /\ Resolved(j)
        /\ calls[i].response = [status |-> 204, body |-> ""]
        /\ calls[j].response = [status |-> 200, body |-> "{}"]
        /\ calls[i].bodyRead = "eof" /\ calls[j].bodyRead = "eof"
        /\ calls[i].payload.kind = "ptr" /\ calls[j].payload.kind = "ptr"
        /\ calls[i].slot = "appA" /\ calls[j].slot = "appA"
        /\ calls[i].result = Nil /\ calls[j].result = Nil

\* C5: under every interleaving each request the transport sends carries
\* "Bearer " plus the token the client was built with and the body of its
\* own payload, and the client is as it was built.
C5_NoCrossCallCorruption ==
    /\ client = built
    /\ \A i \in Callers :
         calls[i].wire.built =>
            /\ calls[i].wire.authorization = "Bearer " \o built.token
            /\ calls[i].wire.method = calls[i].method
            /\ calls[i].payload.kind = "ptr" =>
                   calls[i].wire.body = "{\"name\":\"a\"}\n"
            /\ calls[i].payload.kind \in {"nil", "nilptr"} =>
                   calls[i].wire.body = ""

C5_Witness ==
    \E i, j \in Callers :
        /\ i # j
        /\ calls[i].pc = "inflight" /\ calls[j].pc = "inflight"
        /\ calls[i].wire.body = "{\"name\":\"a\"}\n"
        /\ calls[j].wire.body = ""
        /\ calls[i].wire.authorization = calls[j].wire.authorization

\* C6: Do sends exactly once, Request at most once and not at all when the
\* request could not be built; a failed send is not repeated and Request
\* returns its failure once.
C6_OneSendNoRetry ==
    \A i \in Callers :
        /\ calls[i].sends <= 1
        /\ calls[i].returns <= 1
        /\ calls[i].doReturned => calls[i].sends = 1
        /\ Done(i) =>
              /\ calls[i].returns = 1
              /\ (calls[i].sends = 0) <=> ~calls[i].request.built
              /\ calls[i].transportErr # Nil =>
                     /\ calls[i].sends = 1
                     /\ calls[i].result.kind = "wrapped"
                     /\ calls[i].result.prefix = "failed to send the request"

C6_Witness ==
    \E i, j \in Callers :
        /\ Done(i) /\ Done(j)
        /\ calls[i].transportErr # Nil
        /\ calls[i].sends = 1
        /\ calls[i].returns = 1
        /\ ~calls[j].request.built
        /\ calls[j].sends = 0

\* C8: a request NewRequest builds has Content-Type application/json; its
\* body is empty for an absent payload and for one that encodes to null,
\* and is the encoder's output for any other; it is built whenever the
\* payload encodes and the method is valid.
C8_NullBodyEmptyContentTypeSet ==
    \A i \in Callers :
        /\ calls[i].request.built =>
              /\ calls[i].request.contentType = "application/json"
              /\ calls[i].payload.kind \in {"nil", "nilptr"} =>
                     calls[i].request.body = ""
              /\ calls[i].payload.kind = "ptr" =>
                     calls[i].request.body = "{\"name\":\"a\"}\n"
        /\ calls[i].pc # "idle" /\ calls[i].payload.kind # "chan"
              /\ calls[i].method = "POST" => calls[i].request.built

C8_Witness ==
    \E i, j \in Callers :
        /\ calls[i].request.built /\ calls[j].request.built
        /\ calls[i].payload.kind = "nilptr"
        /\ calls[i].request.body = ""
        /\ calls[i].request.contentType = "application/json"
        /\ calls[j].payload.kind = "nil"
        /\ calls[j].request.body = ""

-----------------------------------------------------------------------------
(* Properties of SpecGate                                                  *)

\* the command paths the specification exempts from authentication
IsLoginOrLogout(path) ==
    path = <<"asgardeo", "login">> \/ path = <<"asgardeo", "logout">>

\* C1: for a command path that requires authentication the gate calls the
\* session setup before the body; the body runs only after the setup has
\* succeeded; when the setup fails the body never runs and the invocation
\* ends with the setup's failure wrapped under "authentication failed".
C1_SetupBeforeBody ==
    /\ gate.pc = "run" /\ ~IsLoginOrLogout(gate.path) =>
          gate.events = <<"setup">>
    /\ \A k \in 1..Len(gate.events) :
          gate.events[k] = "body" /\ ~IsLoginOrLogout(gate.path) =>
              /\ k = 2
              /\ gate.events[1] = "setup"
              /\ gate.setupErr = Nil
    /\ gate.setupErr # Nil =>
          /\ gate.events = <<"setup">>
          /\ gate.pc \in {"returned", "exited"} =>
                 gate.err = [kind   |-> "wrapped",
                             prefix |-> "authentication failed",
                             cause  |-> gate.setupErr]
          /\ gate.pc = "exited" => gate.exitCode = 1

C1_Witness ==
    /\ gate.pc = "exited"
    /\ gate.path = <<"asgardeo", "applications", "list">>
    /\ gate.events = <<"setup">>
    /\ gate.setupErr = [kind |-> "auth", msg |-> "token expired"]
    /\ gate.err.prefix = "authentication failed"
    /\ gate.exitCode = 1

\* C7: the lookup answers false for exactly "asgardeo login" and "asgardeo
\* logout" and true for every other path.
C7_ExemptExactlyLoginLogout ==
    gate.pc = "looked" => gate.needsAuth = ~IsLoginOrLogout(gate.path)

C7_Witness ==
    /\ gate.pc = "looked"
    /\ gate.path = <<"asgardeo", "login", "list">>
    /\ gate.needsAuth

-----------------------------------------------------------------------------
(* Properties of SpecURI                                                   *)

\* the part of the URL after the tenant-scoped base path
AfterBasePath(url) ==
    SubSeq(url, Len(BaseURLString(built)) + 1, Len(url))

HasSlash(str) == \E k \in 1..Len(str) : str[k] = "/"

FirstSlash(str) == CHOOSE k \in 1..Len(str) :
                      str[k] = "/" /\ \A j \in 1..(k - 1) : str[j] # "/"

\* the pieces between the unescaped "/" of a string
RECURSIVE SplitOnSlash(_)
SplitOnSlash(str) ==
    IF ~HasSlash(str) THEN <<str>>
    ELSE LET k == FirstSlash(str)
         IN  <<SubSeq(str, 1, k - 1)>> \o SplitOnSlash(SubSeq(str, k + 1, Len(str)))

\* percent-decoding of a piece
RECURSIVE Unescape(_)
Unescape(str) ==
    IF str = <<>> THEN <<>>
    ELSE IF Len(str) >= 3 /\ SubSeq(str, 1, 3) = <<"%", "2", "F">>
        THEN <<"/">> \o Unescape(SubSeq(str, 4, Len(str)))
    ELSE IF Len(str) >= 3 /\ SubSeq(str, 1, 3) = <<"%", "2", "5">>
        THEN <<"%">> \o Unescape(SubSeq(str, 4, Len(str)))
    ELSE <<Head(str)>> \o Unescape(Tail(str))

\* C9, as stated: for every list of segments, the part of the URL after
\* the base path splits on "/" into as many pieces as there were segments.
C9_SplitCountEveryList ==
    uri.pc = "done" =>
        Len(SplitOnSlash(AfterBasePath(uri.out))) = Len(uri.path)

\* C9, amended: for every list of one or more segments, the part of the
\* URL after the base path splits on "/" into as many pieces as there were
\* segments, and each piece is its segment with every "/" written %2F;
\* for no segments the URL is the base path with its trailing "/".
C9_SplitCountNonEmptyList ==
    uri.pc = "done" =>
        LET pieces == SplitOnSlash(AfterBasePath(uri.out))
        IN  IF uri.path = <<>>
                THEN uri.out = BaseURLString(built)
                ELSE /\ Len(pieces) = Len(uri.path)
                     /\ \A k \in 1..Len(uri.path) :
                           Unescape(pieces[k]) = uri.path[k]

C9_Witness ==
    /\ uri.pc = "done"
    /\ uri.path = << <<"a", "/">>, <<"/", "%">> >>
    /\ AfterBasePath(uri.out) =
           <<"a", "%", "2", "F", "/", "%", "2", "F", "%", "2", "5">>

====
